---- MODULE Spec2Model ----
(***************************************************************************)
(* A model of the city-distance client (src/src/index.ts): the CDSClient   *)
(* constructor and its URL normalisation, the retry interceptor installed  *)
(* by axiosRetry, the error interceptor (handleError) installed after it,  *)
(* and the four operations getSuggestions, calculateDistance, healthCheck  *)
(* and getVersion.                                                         *)
(*                                                                         *)
(* JavaScript values are modelled as tagged records, so that truthiness,   *)
(* the || operator, optional chaining and property reads on null behave as *)
(* they do in the program.                                                 *)
(***************************************************************************)
EXTENDS Integers, Sequences, FiniteSets, TLC

(***************************************************************************)
(* Bounds of the model.                                                    *)
(***************************************************************************)
\* longest base URL handed to the constructor, in parts (scheme, www., host, /)
MaxUrlParts == 4
\* largest retry count a caller supplies in the configuration
MaxRetriesIn == 1

(***************************************************************************)
(* JavaScript values.                                                      *)
(***************************************************************************)
Undef == [k |-> "undef"]
Null == [k |-> "null"]
Str(s) == [k |-> "str", s |-> s]
Num(n) == [k |-> "num", n |-> n]
List(l) == [k |-> "list", l |-> l]
Obj(f) == [k |-> "obj", f |-> f]
Bool(b) == [k |-> "bool", b |-> b]

\* ToBoolean: undefined, null, "" and 0 are falsy, everything else is truthy
\* truthiness with an empty list counted as falsy
Truthy_EmptyListFalsy(v) ==
  CASE v.k = "undef" -> FALSE
    [] v.k = "null" -> FALSE
    [] v.k = "str" -> v.s # ""
    [] v.k = "num" -> v.n # 0
    [] v.k = "bool" -> v.b
    [] v.k = "list" -> v.l # <<>>
    [] OTHER -> TRUE

Truthy(v) ==
  CASE v.k = "undef" -> FALSE
    [] v.k = "null" -> FALSE
    [] v.k = "str" -> v.s # ""
    [] v.k = "num" -> v.n # 0
    [] v.k = "bool" -> v.b
    [] OTHER -> TRUE

\* a || b
Or(a, b) == IF Truthy(a) THEN a ELSE b

\* v is null or undefined: reading a property of it throws a TypeError
Nullish(v) == v.k \in {"undef", "null"}

\* v.name for a non-nullish v: a missing property reads as undefined
Get(v, name) ==
  IF v.k = "obj" /\ name \in DOMAIN v.f THEN v.f[name] ELSE Undef

\* v?.name
OptGet(v, name) == IF Nullish(v) THEN Undef ELSE Get(v, name)

\* `${v}` in a template literal
Template(v) ==
  CASE v.k = "str" -> v.s
    [] v.k = "num" -> ToString(v.n)
    [] v.k = "undef" -> "undefined"
    [] v.k = "null" -> "null"
    [] v.k = "list" -> ""
    [] v.k = "bool" -> IF v.b THEN "true" ELSE "false"
    [] OTHER -> "[object Object]"

(***************************************************************************)
(* Strings the code inspects character by character (the base URL) are     *)
(* sequences of one-character strings.                                     *)
(***************************************************************************)
Chars(parts) ==
  LET RECURSIVE cat(_)
      cat(ps) == IF ps = <<>> THEN <<>> ELSE Head(ps) \o cat(Tail(ps))
  IN cat(parts)

HttpPrefix == <<"h", "t", "t", "p", ":", "/", "/">>
HttpsPrefix == <<"h", "t", "t", "p", "s", ":", "/", "/">>
WwwPrefix == <<"w", "w", "w", ".">>
HostText == <<"a", ".", "i", "o">>
Slash == <<"/">>

\* String.prototype.startsWith
StartsWith(s, p) == Len(s) >= Len(p) /\ SubSeq(s, 1, Len(p)) = p

\* s with its first n characters removed
Drop(s, n) == SubSeq(s, n + 1, Len(s))

\* url.replace(/^(https?:\/\/)?(www\.)?/, ''): one optional scheme, then one
\* optional www., both removed from the front
StripPrefixes(url) ==
  LET a == IF StartsWith(url, HttpsPrefix) THEN Drop(url, Len(HttpsPrefix))
           ELSE IF StartsWith(url, HttpPrefix) THEN Drop(url, Len(HttpPrefix))
           ELSE url
  IN IF StartsWith(a, WwwPrefix) THEN Drop(a, Len(WwwPrefix)) ELSE a

\* s.replace(/\/$/, ''): one trailing slash removed
StripTrailingSlash(s) ==
  IF Len(s) > 0 /\ s[Len(s)] = "/" THEN SubSeq(s, 1, Len(s) - 1) ELSE s

normalizeURL(url) ==
  LET normalized == StripTrailingSlash(StripPrefixes(url))
  IN IF ~StartsWith(normalized, HttpPrefix) /\ ~StartsWith(normalized, HttpsPrefix)
     THEN HttpsPrefix \o normalized
     ELSE normalized

(***************************************************************************)
(* Construction: the configuration with its defaults filled in.            *)
(***************************************************************************)
DefaultTimeout == 30000
DefaultRetries == 3

\* a CDSClientConfig as the caller writes it; absent fields are undefined
ClientConfig(baseURL, username, password, timeout, retries) ==
  [baseURL |-> baseURL, username |-> username, password |-> password,
   timeout |-> timeout, retries |-> retries]

\* this.config as the constructor builds it
Constructor(cfg) ==
  [baseURL |-> normalizeURL(cfg.baseURL),
   username |-> Or(cfg.username, Str("")),
   password |-> Or(cfg.password, Str("")),
   timeout |-> Or(cfg.timeout, Num(DefaultTimeout)),
   retries |-> Or(cfg.retries, Num(DefaultRetries))]

\* the Authorization header is set only when both credentials are non-empty
HasAuthorization(conf) == Truthy(conf.username) /\ Truthy(conf.password)

\* the configuration before the constructor has run
NoConfig ==
  [baseURL |-> <<>>, username |-> Undef, password |-> Undef,
   timeout |-> Undef, retries |-> Undef]

(***************************************************************************)
(* Errors.  An AxiosError carries the response (when one arrived), the     *)
(* request (when one was sent), the request's config and an error code; a  *)
(* CDSError carries message, statusCode and response.                      *)
(***************************************************************************)
AxiosError(message, code, config, request, response) ==
  [name |-> "AxiosError", message |-> Str(message), code |-> code,
   config |-> config, request |-> request, response |-> response]

CDSError(message, statusCode, response) ==
  [name |-> "CDSError", message |-> message, statusCode |-> statusCode,
   response |-> response]

TypeError == [name |-> "TypeError", message |-> Str("Cannot read properties of null")]

\* error.name for a property the error object may not have
Prop(error, name) == IF name \in DOMAIN error THEN error[name] ELSE Undef

MsgAuth == "Authentication failed. Check your credentials."
MsgForbidden == "Access forbidden. You do not have permission."
MsgNotFound == "Resource not found. Check the endpoint URL."
MsgRateLimit == "Rate limit exceeded. Please try again later."
MsgServer == "Server error. Please try again later."
MsgNoResponse == "No response from server. Check your network connection."
MsgQuery == "Query must be at least 2 characters long"
MsgCityIds == "Both city IDs are required"

\* the switch without its case 502
StatusMessage_No502(status, message) ==
  CASE status = Num(400) -> Str("Invalid request: " \o Template(message))
    [] status = Num(401) -> Str(MsgAuth)
    [] status = Num(403) -> Str(MsgForbidden)
    [] status = Num(404) -> Str(MsgNotFound)
    [] status = Num(429) -> Str(MsgRateLimit)
    [] status \in {Num(500), Num(503), Num(504)} -> Str(MsgServer)
    [] OTHER -> message

\* the switch on the status in handleError
StatusMessage(status, message) ==
  CASE status = Num(400) -> Str("Invalid request: " \o Template(message))
    [] status = Num(401) -> Str(MsgAuth)
    [] status = Num(403) -> Str(MsgForbidden)
    [] status = Num(404) -> Str(MsgNotFound)
    [] status = Num(429) -> Str(MsgRateLimit)
    [] status \in {Num(500), Num(502), Num(503), Num(504)} -> Str(MsgServer)
    [] OTHER -> message

\* handleError with the request looked at before the response
handleError_RequestFirst(error) ==
  IF Truthy(Prop(error, "request"))
  THEN CDSError(Str(MsgNoResponse), Undef, error.request)
  ELSE IF Truthy(Prop(error, "response"))
  THEN LET status == Get(error.response, "status")
           data == Get(error.response, "data")
           message == Or(Or(OptGet(data, "error"), OptGet(data, "message")),
                         error.message)
       IN CDSError(StatusMessage(status, message), status, data)
  ELSE CDSError(error.message, Undef, Undef)

handleError(error) ==
  IF Truthy(Prop(error, "response"))
  THEN LET status == Get(error.response, "status")
           data == Get(error.response, "data")
           message == Or(Or(OptGet(data, "error"), OptGet(data, "message")),
                         error.message)
       IN CDSError(StatusMessage(status, message), status, data)
  ELSE IF Truthy(Prop(error, "request"))
  THEN CDSError(Str(MsgNoResponse), Undef, error.request)
  ELSE CDSError(error.message, Undef, Undef)

(***************************************************************************)
(* The retry interceptor (axiosRetry).  It is installed before the error   *)
(* interceptor, so it sees the transport's own error first.                *)
(***************************************************************************)
\* the error codes for which the retry library does not report a network error
NetworkCodeExcluded == {"ECONNABORTED", "ERR_CANCELED", "ENOTFOUND", "ENETUNREACH"}
IdempotentMethods == {"get", "head", "options", "put", "delete"}

\* 5xx, or no response at all, and not an aborted (timed out) request
isRetryableError(error) ==
  /\ error.code # Str("ECONNABORTED")
  /\ \/ ~Truthy(error.response)
     \/ LET status == Get(error.response, "status")
        IN status.k = "num" /\ status.n >= 500 /\ status.n <= 599

isNetworkError(error) ==
  /\ ~Truthy(error.response)
  /\ Truthy(error.code)
  /\ error.code.s \notin NetworkCodeExcluded

isIdempotentRequestError(error) ==
  /\ Truthy(error.config)
  /\ isRetryableError(error)
  /\ Get(error.config, "method").s \in IdempotentMethods

isNetworkOrIdempotentRequestError(error) ==
  isNetworkError(error) \/ isIdempotentRequestError(error)

\* the retryable statuses with 404 among them
retryableStatuses_With404 ==
  {Num(404), Num(408), Num(429), Num(500), Num(502), Num(503), Num(504)}

retryableStatuses == {Num(408), Num(429), Num(500), Num(502), Num(503), Num(504)}

retryCondition(error) ==
  IF isNetworkOrIdempotentRequestError(error)
  THEN TRUE
  ELSE IF Truthy(error.response)
       THEN Get(error.response, "status") \in retryableStatuses
       ELSE FALSE

\* shouldRetry allowing one retry too many
shouldRetry_OneMore(conf, retryCount, error) ==
  /\ Truthy(error.config)
  /\ retryCount <= conf.retries.n
  /\ retryCondition(error)

\* the retry interceptor retries an error that carries its request's config,
\* while the request has been retried fewer than `retries` times
shouldRetry(conf, retryCount, error) ==
  /\ Truthy(error.config)
  /\ retryCount < conf.retries.n
  /\ retryCondition(error)

\* retryDelay: axiosRetry.exponentialDelay, 2^retryNumber * 100 ms (its random
\* addition of up to a fifth is left out)
DelayFactor == 100
exponentialDelay(retryNumber) == (2 ^ retryNumber) * DelayFactor

\* The retry library does not reset the timeout for a retry (shouldResetTimeout
\* is not set): the retried request's timeout is what the time the last attempt
\* took and the delay leave of it, and the retry is given up when nothing is left.
remainingTimeout(timeout, lastRequestDuration, delay) ==
  timeout - lastRequestDuration - delay

(***************************************************************************)
(* The error interceptor.  A retry re-issues the request through the       *)
(* client itself, so the retried request runs the whole interceptor chain  *)
(* again, nested inside the retry interceptor of the request before it: a  *)
(* failure after n retries passes through the error interceptor of the     *)
(* innermost request and then through that of each of the n enclosing      *)
(* requests.                                                               *)
(***************************************************************************)
RECURSIVE errorInterceptor(_, _)
errorInterceptor(error, retryCount) ==
  IF retryCount = 0
  THEN handleError(error)
  ELSE handleError(errorInterceptor(error, retryCount - 1))

(***************************************************************************)
(* The state: the client (its configuration, once constructed) and the     *)
(* calls made on it.  Several calls may be in flight at once.              *)
(***************************************************************************)
VARIABLES
  constructed,  \* the constructor has run
  cfgIn,        \* the CDSClientConfig handed to the constructor
  config,       \* this.config
  callers,      \* the callers that use the client, each making one call at a time
  calls,        \* for each caller's call: where it stands, and what it has seen
  hook,         \* the hook the component uses, if it uses one
  suggestions,  \* useCitySuggestions: the suggestions state
  distance,     \* useDistanceCalculation: the distance state
  loading,      \* the loading state of the hook in use
  hookError,    \* the error state of the hook in use
  latest        \* the hook's most recent search or calculate, and how it ended

hookVars == <<hook, suggestions, distance, loading, hookError, latest>>

vars == <<constructed, cfgIn, config, callers, calls, hookVars>>

CallIds == {"c1", "c2"}

Ops == {"getSuggestions", "calculateDistance", "healthCheck", "getVersion"}

\* the HTTP method each operation uses
Method(op) == IF op = "calculateDistance" THEN "post" ELSE "get"

(***************************************************************************)
(* What the outside world supplies: arguments, responses and failures.     *)
(***************************************************************************)
Queries == {Undef, Null, Str(""), Str("a"), Str("ab")}
CityIds == {Str(""), Str("x")}

Distances == {0, 1234}
Suggestions == {<<>>, <<"Oslo">>}

OkStatuses == {200}
ErrStatuses == {400, 401, 403, 404, 408, 429, 500, 501, 502, 503, 504}

\* bodies of 2xx responses
OkBodies ==
  {Null, Str(""), Str("1.4.2")}
  \cup {Num(d) : d \in Distances}
  \cup {Obj([distanceKm |-> Num(d)]) : d \in Distances}
  \cup {Obj([data |-> Num(d)]) : d \in Distances}
  \cup {List(l) : l \in Suggestions}
  \cup {Obj([data |-> List(l)]) : l \in Suggestions}

\* bodies of error responses
ErrBodies ==
  {Str(""),
   Obj([message |-> Str("boom")]),
   Obj([error |-> Str("bad"), message |-> Str("boom")]),
   Obj([status |-> Num(503), error |-> Str("Service Unavailable")]),
   Obj([data |-> Obj([error |-> Str("inner")])])}

\* the request object of an error: an http.ClientRequest has no status, an
\* XMLHttpRequest that got no response has status 0
RequestObjs == {Obj(<<>>), Obj([status |-> Num(0)])}

RequestConfig(op) == Obj([method |-> Str(Method(op))])

\* the transport's error for a response outside 2xx
StatusError(op, status, body) ==
  AxiosError("Request failed with status code " \o ToString(status),
             Str(IF status >= 500 THEN "ERR_BAD_RESPONSE" ELSE "ERR_BAD_REQUEST"),
             RequestConfig(op), Obj(<<>>),
             Obj([status |-> Num(status), data |-> body]))

\* connection refused, or the host name did not resolve: a request, no response
NetworkError(op, code, request) ==
  AxiosError("Network Error", Str(code), RequestConfig(op), request, Undef)

\* the attempt exceeded the configured timeout
TimeoutError(op, request) ==
  AxiosError("timeout exceeded", Str("ECONNABORTED"), RequestConfig(op), request, Undef)

\* the request could not be built: no request, no response, no config
SetupError == AxiosError("Invalid URL", Undef, Undef, Undef, Undef)

NetworkCodes == {"ECONNREFUSED", "ENOTFOUND"}

(***************************************************************************)
(* A call.                                                                 *)
(***************************************************************************)
NoOutcome == [name |-> "none"]
Response(status, body) == [name |-> "Response", status |-> status, data |-> body]

NoResult == [kind |-> "none"]
Resolved(v) == [kind |-> "resolved", value |-> v]
Rejected(e) == [kind |-> "rejected", error |-> e]

\* pc: idle, sent (an attempt is outstanding), backoff (waiting to retry), settled
\* attempts: HTTP attempts issued; retryCount: the retry library's counter
\* args: the operation's arguments
\* timeout: the timeout of the request's config, as the current attempt has it
\* last: the outcome of the latest finished attempt
\* classified: the CDSError handleError made of the final attempt's transport error
\* thrown: the error this.client.get / this.client.post rejected with, if it did
\* result: what the operation's caller got
\* only503: every attempt so far was answered with 503
IdleCall ==
  [pc |-> "idle", op |-> "none", args |-> <<>>, attempts |-> 0, retryCount |-> 0,
   timeout |-> 0,
   last |-> NoOutcome, classified |-> NoOutcome, thrown |-> NoOutcome,
   result |-> NoResult, only503 |-> TRUE]

SentCall(op, args) ==
  [IdleCall EXCEPT !.pc = "sent", !.op = op, !.args = args, !.attempts = 1,
                   !.timeout = config.timeout.n]

\* the operation threw before it issued any request
ThrownCall(op, args, error) ==
  [IdleCall EXCEPT !.pc = "settled", !.op = op, !.args = args,
                   !.result = Rejected(error)]

\* the attempt was answered, with this status
AnsweredWith(outcome, status) ==
  /\ outcome.name = "AxiosError"
  /\ Truthy(outcome.response)
  /\ Get(outcome.response, "status") = Num(status)

SettledCall(call, outcome, thrown, result) ==
  [call EXCEPT !.pc = "settled", !.last = outcome, !.thrown = thrown,
               !.result = result,
               !.only503 = call.only503 /\ AnsweredWith(outcome, 503)]

BackoffCall(call, error) ==
  [call EXCEPT !.pc = "backoff", !.last = error,
               !.retryCount = call.retryCount + 1,
               !.only503 = call.only503 /\ AnsweredWith(error, 503)]

ConfigInputs ==
  {ClientConfig(HostText, Undef, Undef, Undef, r) :
     r \in {Undef} \cup {Num(n) : n \in 0..MaxRetriesIn}}

\* the hook's most recent search or calculate: none so far, one that made no
\* call (by = "short"), or the call of caller `by`, with its result once known
NoLatest == [by |-> "none", result |-> NoResult]

\* the states of a hook at its first render
HookInit ==
  /\ suggestions = List(<<>>)
  /\ distance = Null
  /\ loading = FALSE
  /\ hookError = Null
  /\ latest = NoLatest

Init ==
  /\ constructed = TRUE
  /\ cfgIn \in ConfigInputs
  /\ config = Constructor(cfgIn)
  /\ callers = {"c1"}
  /\ calls = [c \in CallIds |-> IdleCall]
  /\ hook = "none"
  /\ HookInit

(***************************************************************************)
(* The operations.  Each validates its arguments and, if they pass, issues *)
(* the first attempt of its request.                                       *)
(***************************************************************************)
\* getSuggestions accepting a query of one character
getSuggestions_MinLength1(c, query) ==
  /\ constructed
  /\ c \in callers
  /\ calls[c].pc = "idle"
  /\ calls' = [calls EXCEPT ![c] =
       IF ~Truthy(query) \/ Len(query.s) < 1
       THEN ThrownCall("getSuggestions", <<query>>,
                       CDSError(Str(MsgQuery), Undef, Undef))
       ELSE SentCall("getSuggestions", <<query>>)]
  /\ UNCHANGED <<constructed, cfgIn, config, callers, hookVars>>

\* getSuggestions up to its await: it has thrown, or its request is out
getSuggestionsStart(query) ==
  IF ~Truthy(query) \/ Len(query.s) < 2
  THEN ThrownCall("getSuggestions", <<query>>,
                  CDSError(Str(MsgQuery), Undef, Undef))
  ELSE SentCall("getSuggestions", <<query>>)

getSuggestions(c, query) ==
  /\ constructed
  /\ c \in callers
  /\ calls[c].pc = "idle"
  /\ calls' = [calls EXCEPT ![c] = getSuggestionsStart(query)]
  /\ UNCHANGED <<constructed, cfgIn, config, callers, hookVars>>

\* calculateDistance up to its await
calculateDistanceStart(city1Id, city2Id) ==
  IF ~Truthy(city1Id) \/ ~Truthy(city2Id)
  THEN ThrownCall("calculateDistance", <<city1Id, city2Id>>,
                  CDSError(Str(MsgCityIds), Undef, Undef))
  ELSE SentCall("calculateDistance", <<city1Id, city2Id>>)

calculateDistance(c, city1Id, city2Id) ==
  /\ constructed
  /\ c \in callers
  /\ calls[c].pc = "idle"
  /\ calls' = [calls EXCEPT ![c] = calculateDistanceStart(city1Id, city2Id)]
  /\ UNCHANGED <<constructed, cfgIn, config, callers, hookVars>>

healthCheck(c) ==
  /\ constructed
  /\ c \in callers
  /\ calls[c].pc = "idle"
  /\ calls' = [calls EXCEPT ![c] = SentCall("healthCheck", <<>>)]
  /\ UNCHANGED <<constructed, cfgIn, config, callers, hookVars>>

getVersion(c) ==
  /\ constructed
  /\ c \in callers
  /\ calls[c].pc = "idle"
  /\ calls' = [calls EXCEPT ![c] = SentCall("getVersion", <<>>)]
  /\ UNCHANGED <<constructed, cfgIn, config, callers, hookVars>>

(***************************************************************************)
(* What each operation does with a 2xx response, and with the error the    *)
(* interceptors hand it.                                                   *)
(***************************************************************************)
OnResponse(op, data) ==
  CASE op = "getSuggestions" ->
         IF Nullish(data) THEN Rejected(TypeError)
         ELSE Resolved(Or(Get(data, "data"), data))
    [] op = "calculateDistance" ->
         IF Nullish(data) THEN Rejected(TypeError)
         ELSE Resolved(Or(Or(Get(data, "distanceKm"), Get(data, "data")), data))
    [] op = "healthCheck" -> Resolved(Bool(TRUE))
    [] OTHER -> Resolved(data)

\* healthCheck without its catch
OnError_Rethrows(op, error) == Rejected(error)

OnError(op, error) ==
  IF op = "healthCheck" THEN Resolved(Bool(FALSE)) ELSE Rejected(error)

(***************************************************************************)
(* The end of an attempt.                                                  *)
(***************************************************************************)
\* a 2xx response passes both interceptors unchanged and reaches the operation
AttemptSucceeds(c, status, body) ==
  /\ c \in callers
  /\ calls[c].pc = "sent"
  /\ calls' = [calls EXCEPT ![c] =
       SettledCall(calls[c], Response(status, body), NoOutcome,
                   OnResponse(calls[c].op, body))]
  /\ UNCHANGED <<constructed, cfgIn, config, callers, hookVars>>

\* the retry count kept for all requests of the client together
getCurrentState_PerClient(c) ==
  LET RECURSIVE Sum(_)
      Sum(S) == IF S = {} THEN 0
                ELSE LET d == CHOOSE x \in S : TRUE
                     IN calls[d].retryCount + Sum(S \ {d})
  IN Sum(CallIds)

\* the retry library keeps its retry count in the config of the request it
\* belongs to, so each call has its own
getCurrentState(c) == calls[c].retryCount

\* a failed attempt: the retry interceptor schedules a retry, or lets the
\* error through to the error interceptor(s) and from there to the operation
\* (the attempt took `duration` ms)
Fail(c, error, duration) ==
  /\ c \in callers
  /\ calls[c].pc = "sent"
  /\ calls' = [calls EXCEPT ![c] =
       LET call == calls[c]
           thrown == errorInterceptor(error, call.attempts - 1)
           settled == [SettledCall(call, error, thrown, OnError(call.op, thrown))
                         EXCEPT !.classified = handleError(error)]
           left == remainingTimeout(call.timeout, duration,
                                    exponentialDelay(call.retryCount + 1))
       IN IF ~shouldRetry(config, getCurrentState(c), error)
          THEN settled
          ELSE IF call.timeout # 0 /\ left <= 0
          THEN [settled EXCEPT !.retryCount = call.retryCount + 1]
          ELSE [BackoffCall(call, error) EXCEPT
                  !.timeout = IF call.timeout # 0 THEN left ELSE 0]]
  /\ UNCHANGED <<constructed, cfgIn, config, callers, hookVars>>

\* how long an attempt that ended before its timeout took: no time to speak
\* of, or all but the last millisecond of its timeout
Duration(c, slow) == IF slow /\ calls[c].timeout > 0 THEN calls[c].timeout - 1 ELSE 0

AttemptFailsWithStatus(c, status, body, slow) ==
  Fail(c, StatusError(calls[c].op, status, body), Duration(c, slow))

AttemptFailsOnNetwork(c, code, request, slow) ==
  Fail(c, NetworkError(calls[c].op, code, request), Duration(c, slow))

AttemptTimesOut(c, request) ==
  Fail(c, TimeoutError(calls[c].op, request), calls[c].timeout)

AttemptFailsInSetup(c) ==
  Fail(c, SetupError, 0)

\* the backoff delay is over: the request is issued again, with the timeout
\* the retry interceptor left it
Retry(c) ==
  /\ c \in callers
  /\ calls[c].pc = "backoff"
  /\ calls' = [calls EXCEPT ![c] =
       [calls[c] EXCEPT !.pc = "sent", !.attempts = calls[c].attempts + 1]]
  /\ UNCHANGED <<constructed, cfgIn, config, callers, hookVars>>

\* the caller has taken the result; the slot is free for another call
Return(c) ==
  /\ c \in callers
  /\ calls[c].pc = "settled"
  /\ calls' = [calls EXCEPT ![c] = IdleCall]
  /\ UNCHANGED <<constructed, cfgIn, config, callers, hookVars>>

Next ==
  \E c \in CallIds :
    \/ \E q \in Queries : getSuggestions(c, q)
    \/ \E a \in CityIds, b \in CityIds : calculateDistance(c, a, b)
    \/ healthCheck(c)
    \/ getVersion(c)
    \/ \E st \in OkStatuses, body \in OkBodies : AttemptSucceeds(c, st, body)
    \/ \E st \in ErrStatuses, body \in ErrBodies, slow \in BOOLEAN :
         AttemptFailsWithStatus(c, st, body, slow)
    \/ \E code \in NetworkCodes, rq \in RequestObjs, slow \in BOOLEAN :
         AttemptFailsOnNetwork(c, code, rq, slow)
    \/ \E rq \in RequestObjs : AttemptTimesOut(c, rq)
    \/ AttemptFailsInSetup(c)
    \/ Retry(c)
    \/ Return(c)

Spec == Init /\ [][Next]_vars

(***************************************************************************)
(* Two callers on one client, their calls in flight together.  Attempts    *)
(* end with one of a few outcomes, and failed ones fail at once.           *)
(***************************************************************************)
InitConcurrent ==
  /\ constructed = TRUE
  /\ cfgIn \in ConfigInputs
  /\ config = Constructor(cfgIn)
  /\ callers = CallIds
  /\ calls = [c \in CallIds |-> IdleCall]
  /\ hook = "none"
  /\ HookInit

ConcurrentBodies == {List(<<"Oslo">>), Obj([distanceKm |-> Num(1234)])}
ConcurrentStatuses == {404, 503}

NextConcurrent ==
  \E c \in CallIds :
    \/ getSuggestions(c, Str("ab"))
    \/ calculateDistance(c, Str("x"), Str("x"))
    \/ \E st \in OkStatuses, body \in ConcurrentBodies : AttemptSucceeds(c, st, body)
    \/ \E st \in ConcurrentStatuses : AttemptFailsWithStatus(c, st, Str(""), FALSE)
    \/ AttemptFailsOnNetwork(c, "ECONNREFUSED", Obj(<<>>), FALSE)
    \/ Retry(c)
    \/ Return(c)

SpecConcurrent == InitConcurrent /\ [][NextConcurrent]_vars

(***************************************************************************)
(* The hooks.  A component uses one of them; search and calculate may be   *)
(* called again while earlier calls of theirs are in flight.  Each runs up *)
(* to its await in one step and resumes, in a later step, once the         *)
(* client's promise has settled.  State setters take effect at once.       *)
(***************************************************************************)
Hooks == {"useCitySuggestions", "useDistanceCalculation"}

HookQueries == {Str(""), Str("a"), Str("ab")}

InitHooks ==
  /\ constructed = TRUE
  /\ cfgIn \in ConfigInputs
  /\ config = Constructor(cfgIn)
  /\ callers = CallIds
  /\ calls = [c \in CallIds |-> IdleCall]
  /\ hook \in Hooks
  /\ HookInit

\* search, up to the await of client.getSuggestions
search(c, query) ==
  /\ hook = "useCitySuggestions"
  /\ constructed
  /\ c \in callers
  /\ calls[c].pc = "idle"
  /\ IF Len(query.s) < 2
     THEN /\ suggestions' = List(<<>>)
          /\ latest' = [by |-> "short", result |-> NoResult]
          /\ UNCHANGED <<calls, loading, hookError>>
     ELSE /\ loading' = TRUE
          /\ hookError' = Null
          /\ calls' = [calls EXCEPT ![c] = getSuggestionsStart(query)]
          /\ latest' = [by |-> c, result |-> NoResult]
          /\ UNCHANGED suggestions
  /\ UNCHANGED <<constructed, cfgIn, config, callers, hook, distance>>

\* how the most recent search or calculate ended, if call c is it
Ended(c) ==
  IF latest.by = c THEN [latest EXCEPT !.result = calls[c].result] ELSE latest

\* search, from the await on: try, catch and finally
searchResumes(c) ==
  /\ hook = "useCitySuggestions"
  /\ calls[c].pc = "settled"
  /\ IF calls[c].result.kind = "resolved"
     THEN suggestions' = calls[c].result.value /\ UNCHANGED hookError
     ELSE hookError' = calls[c].result.error /\ UNCHANGED suggestions
  /\ loading' = FALSE
  /\ latest' = Ended(c)
  /\ calls' = [calls EXCEPT ![c] = IdleCall]
  /\ UNCHANGED <<constructed, cfgIn, config, callers, hook, distance>>

\* calculate, up to the await of client.calculateDistance
calculate(c, city1Id, city2Id) ==
  /\ hook = "useDistanceCalculation"
  /\ constructed
  /\ c \in callers
  /\ calls[c].pc = "idle"
  /\ loading' = TRUE
  /\ hookError' = Null
  /\ distance' = Null
  /\ calls' = [calls EXCEPT ![c] = calculateDistanceStart(city1Id, city2Id)]
  /\ latest' = [by |-> c, result |-> NoResult]
  /\ UNCHANGED <<constructed, cfgIn, config, callers, hook, suggestions>>

\* calculate, from the await on: try, catch and finally
calculateResumes(c) ==
  /\ hook = "useDistanceCalculation"
  /\ calls[c].pc = "settled"
  /\ IF calls[c].result.kind = "resolved"
     THEN distance' = calls[c].result.value /\ UNCHANGED hookError
     ELSE hookError' = calls[c].result.error /\ UNCHANGED distance
  /\ loading' = FALSE
  /\ latest' = Ended(c)
  /\ calls' = [calls EXCEPT ![c] = IdleCall]
  /\ UNCHANGED <<constructed, cfgIn, config, callers, hook, suggestions>>

\* the bodies of 2xx responses: suggestion lists and distances
HookBodies ==
  {List(l) : l \in Suggestions}
  \cup {Obj([distanceKm |-> Num(d)]) : d \in Distances \ {0}}

NextHooks ==
  \E c \in CallIds :
    \/ \E q \in HookQueries : search(c, q)
    \/ \E a \in CityIds : calculate(c, a, Str("x"))
    \/ \E st \in OkStatuses, body \in HookBodies : AttemptSucceeds(c, st, body)
    \/ \E st \in ConcurrentStatuses : AttemptFailsWithStatus(c, st, Str(""), FALSE)
    \/ Retry(c)
    \/ searchResumes(c)
    \/ calculateResumes(c)

SpecHooks == InitHooks /\ [][NextHooks]_vars

(***************************************************************************)
(* Construction as a step of its own, over a wide range of configurations: *)
(* every base URL made of up to MaxUrlParts parts around a host name.      *)
(***************************************************************************)
UrlParts == {HttpPrefix, HttpsPrefix, WwwPrefix, HostText, Slash}

UrlInputs ==
  {Chars(ps) : ps \in {q \in UNION {[1..n -> UrlParts] : n \in 1..MaxUrlParts} :
                         \E i \in DOMAIN q : q[i] = HostText}}

ConstructInputs ==
  {ClientConfig(u, Undef, Undef, Undef, Undef) : u \in UrlInputs}
  \cup {ClientConfig(HostText, un, pw, t, r) :
          un \in {Undef, Str(""), Str("user")},
          pw \in {Undef, Str(""), Str("secret")},
          t \in {Undef, Num(0), Num(5000)},
          r \in {Undef} \cup {Num(n) : n \in 0..MaxRetriesIn}}

InitConstruct ==
  /\ constructed = FALSE
  /\ cfgIn \in ConstructInputs
  /\ config = NoConfig
  /\ callers = {}
  /\ calls = [c \in CallIds |-> IdleCall]
  /\ hook = "none"
  /\ HookInit

Construct ==
  /\ ~constructed
  /\ constructed' = TRUE
  /\ config' = Constructor(cfgIn)
  /\ UNCHANGED <<cfgIn, callers, calls, hookVars>>

SpecConstruct == InitConstruct /\ [][Construct]_vars

(***************************************************************************)
(* Properties.                                                             *)
(***************************************************************************)
\* the effective retry count of the constructed client
MaxRetries == config.retries.n

\* the operations that hand the HTTP call's error on to their caller
Raising(op) == op \in {"getSuggestions", "calculateDistance", "getVersion"}

StatusOf(error) == Get(error.response, "status")
BodyOf(error) == Get(error.response, "data")

\* an HTTP call that has ended in a failed final attempt
FailedCall(call) ==
  call.pc = "settled" /\ call.attempts >= 1 /\ call.last.name = "AxiosError"

\* a step that issues a further attempt of call c
FurtherAttempt(c) ==
  calls[c].attempts >= 1 /\ calls'[c].attempts = calls[c].attempts + 1

\* C1 as stated: a failure is retryable when its status is one of the six
\* listed, or when it is a network-level failure (a request, but no response)
C1_StatedRetryable(call) ==
  /\ call.last.name = "AxiosError"
  /\ \/ Truthy(call.last.response) /\ StatusOf(call.last) \in retryableStatuses
     \/ ~Truthy(call.last.response) /\ Truthy(call.last.request)

\* C1 (as stated): a further attempt is issued only after a failure with status
\* 408, 429, 500, 502, 503 or 504 or a network-level failure, and only while
\* fewer than maxRetries retries have been made; at most maxRetries + 1 attempts.
C1_RetryOnlyListedFailures ==
  [][\A c \in CallIds :
       /\ calls'[c].attempts <= MaxRetries + 1
       /\ FurtherAttempt(c) =>
            calls[c].attempts - 1 < MaxRetries /\ C1_StatedRetryable(calls[c])]_vars

\* the retryable failures of the amended C1: additionally any 5xx status when
\* the request is a GET, and any failure that brought no response
C1_AmendedRetryable(call) ==
  /\ call.last.name = "AxiosError"
  /\ \/ Truthy(call.last.response) /\ StatusOf(call.last) \in retryableStatuses
     \/ /\ Truthy(call.last.response)
        /\ Method(call.op) = "get"
        /\ StatusOf(call.last).n \in 500..599
     \/ ~Truthy(call.last.response)

\* C1 (amended): a further attempt is issued only while fewer than maxRetries
\* retries have been made and only after a failure that is retryable: status
\* 408, 429, 500, 502, 503 or 504, any 5xx status when the call is a GET, or no
\* response at all; never after a 2xx or any other 4xx; so a call makes at most
\* maxRetries + 1 attempts.
C1_RetryOnlyRetryable ==
  [][\A c \in CallIds :
       /\ calls'[c].attempts <= MaxRetries + 1
       /\ FurtherAttempt(c) =>
            calls[c].attempts - 1 < MaxRetries /\ C1_AmendedRetryable(calls[c])]_vars

\* a POST has used up its retries on retryable failures
C1_Witness ==
  \E c \in CallIds :
    /\ calls[c].op = "calculateDistance"
    /\ calls[c].pc = "settled"
    /\ calls[c].attempts = MaxRetries + 1
    /\ AnsweredWith(calls[c].last, 503)

\* C2: a call whose final attempt got a non-2xx response rejects with a CDSError
\* whose statusCode is that response's status and whose response is its body,
\* after retries as well as without; statusCode is absent only without a response.
C2_FinalStatusSurfaced ==
  \A c \in CallIds :
    FailedCall(calls[c]) =>
      /\ calls[c].thrown.name = "CDSError"
      /\ Truthy(calls[c].last.response) =>
           /\ calls[c].thrown.statusCode = StatusOf(calls[c].last)
           /\ calls[c].thrown.response = BodyOf(calls[c].last)
      /\ calls[c].thrown.statusCode = Undef => ~Truthy(calls[c].last.response)

\* C3: when every attempt is answered with 503, the call makes maxRetries + 1
\* attempts and then rejects with the message "Server error. Please try again
\* later."; it never resolves.
C3_AllAttempts503 ==
  \A c \in CallIds :
    calls[c].pc = "settled" /\ calls[c].attempts >= 1 /\ calls[c].only503 =>
      /\ calls[c].attempts = MaxRetries + 1
      /\ calls[c].thrown.name = "CDSError"
      /\ calls[c].thrown.message = Str(MsgServer)
      /\ Raising(calls[c].op) => calls[c].result = Rejected(calls[c].thrown)

\* C4: a 404 on the first attempt of a call, GET or POST, is not retried: the
\* call ends after that one attempt, rejecting with a CDSError with the message
\* "Resource not found. Check the endpoint URL." and statusCode 404.
C4_NotFoundSurfacesAtOnce ==
  \A c \in CallIds :
    /\ calls[c].attempts = 1
    /\ calls[c].pc \in {"backoff", "settled"}
    /\ AnsweredWith(calls[c].last, 404)
    => /\ calls[c].pc = "settled"
       /\ calls[c].thrown = CDSError(Str(MsgNotFound), Num(404), BodyOf(calls[c].last))
       /\ Raising(calls[c].op) => calls[c].result = Rejected(calls[c].thrown)

\* a POST was answered with 404 on its first attempt and has ended
C4_Witness ==
  \E c \in CallIds :
    /\ calls[c].op = "calculateDistance"
    /\ calls[c].pc = "settled"
    /\ calls[c].attempts = 1
    /\ AnsweredWith(calls[c].last, 404)

\* C5: whatever the attempts brought, and whatever the body of a 2xx response,
\* a getSuggestions, calculateDistance or getVersion call that fails rejects
\* with a CDSError, never with any other error.
C5_OnlyClientErrors ==
  \A c \in CallIds :
    /\ calls[c].pc = "settled"
    /\ Raising(calls[c].op)
    /\ calls[c].result.kind = "rejected"
    => calls[c].result.error.name = "CDSError"

\* C6: for every distance d, 0 included, calculateDistance returns the number d
\* for the bodies {distanceKm: d}, {data: d} and d.
C6_DistanceUnwrapped ==
  \A c \in CallIds :
    /\ calls[c].pc = "settled"
    /\ calls[c].op = "calculateDistance"
    /\ calls[c].last.name = "Response"
    => \A d \in Distances :
         calls[c].last.data \in {Obj([distanceKm |-> Num(d)]),
                                 Obj([data |-> Num(d)]), Num(d)}
         => calls[c].result = Resolved(Num(d))

\* the arguments the operations must refuse
C7_InvalidArguments(call) ==
  \/ /\ call.op = "getSuggestions"
     /\ Nullish(call.args[1]) \/ Len(call.args[1].s) < 2
  \/ /\ call.op = "calculateDistance"
     /\ call.args[1] = Str("") \/ call.args[2] = Str("")

\* C7: getSuggestions with no query or one shorter than 2 characters, and
\* calculateDistance with an empty city id, reject with a CDSError without
\* statusCode, and no HTTP attempt is ever issued for the call.
C7_InvalidArgumentsNeverSent ==
  \A c \in CallIds :
    C7_InvalidArguments(calls[c]) =>
      /\ calls[c].pc = "settled"
      /\ calls[c].attempts = 0
      /\ calls[c].last = NoOutcome
      /\ calls[c].result.kind = "rejected"
      /\ calls[c].result.error.name = "CDSError"
      /\ calls[c].result.error.statusCode = Undef

\* getSuggestions("a") has been called
C7_Witness ==
  \E c \in CallIds :
    calls[c].op = "getSuggestions" /\ calls[c].args = <<Str("a")>>

\* C8: healthCheck never rejects: it resolves to true exactly when the final
\* attempt got a 2xx response, and to false after every final failure.
C8_HealthCheckNeverRejects ==
  \A c \in CallIds :
    calls[c].op = "healthCheck" /\ calls[c].pc = "settled" =>
      /\ calls[c].result.kind = "resolved"
      /\ calls[c].result.value =
           Bool(calls[c].last.name = "Response" /\ calls[c].last.status \in 200..299)

\* a healthCheck has failed for good after its retries
C8_Witness ==
  \E c \in CallIds :
    /\ calls[c].op = "healthCheck"
    /\ calls[c].pc = "settled"
    /\ calls[c].attempts = MaxRetries + 1
    /\ calls[c].last.name = "AxiosError"

\* C9: whatever scheme prefixes, www. prefixes and trailing slashes the base
\* URL is built from, the normalized base URL starts with https://, does not
\* end with / and has no www. right after the scheme.
C9_NormalizedForm ==
  constructed =>
    /\ StartsWith(config.baseURL, HttpsPrefix)
    /\ config.baseURL[Len(config.baseURL)] # "/"
    /\ ~StartsWith(Drop(config.baseURL, Len(HttpsPrefix)), WwwPrefix)

\* C10: the error of a single failed attempt is classified in this order: with
\* a response, statusCode is its status; else with a request, statusCode is
\* absent and the message is "No response from server. Check your network
\* connection."; else statusCode is absent and the message is the error's own.
C10_ClassificationOrder ==
  \A c \in CallIds :
    FailedCall(calls[c]) /\ calls[c].attempts = 1 =>
      /\ calls[c].thrown.name = "CDSError"
      /\ IF Truthy(calls[c].last.response)
         THEN calls[c].thrown.statusCode = StatusOf(calls[c].last)
         ELSE IF Truthy(calls[c].last.request)
         THEN /\ calls[c].thrown.statusCode = Undef
              /\ calls[c].thrown.message = Str(MsgNoResponse)
         ELSE /\ calls[c].thrown.statusCode = Undef
              /\ calls[c].thrown.message = calls[c].last.message

\* a single attempt has failed without a response
C10_Witness ==
  \E c \in CallIds :
    /\ FailedCall(calls[c])
    /\ calls[c].attempts = 1
    /\ ~Truthy(calls[c].last.response)
    /\ Truthy(calls[c].last.request)

\* the server-supplied message of a failure with a response: the body's error
\* field, else its message field, else the transport error's text
C11_ServerMessage(error) ==
  LET body == BodyOf(error)
      Field(name) == IF body.k = "obj" /\ name \in DOMAIN body.f
                     THEN body.f[name] ELSE Str("")
  IN IF Field("error") # Str("") THEN Field("error")
     ELSE IF Field("message") # Str("") THEN Field("message")
     ELSE error.message

\* the message C11 states for status s and server-supplied message m
C11_StatedMessage(s, m) ==
  IF s = 400 THEN Str("Invalid request: " \o m.s)
  ELSE IF s = 401 THEN Str("Authentication failed. Check your credentials.")
  ELSE IF s = 403 THEN Str("Access forbidden. You do not have permission.")
  ELSE IF s = 404 THEN Str("Resource not found. Check the endpoint URL.")
  ELSE IF s = 429 THEN Str("Rate limit exceeded. Please try again later.")
  ELSE IF s \in {500, 502, 503, 504} THEN Str("Server error. Please try again later.")
  ELSE m

\* C11: for a failure with a response of status s and server-supplied message
\* m, handleError's CDSError has the message "Invalid request: " + m for 400,
\* the fixed message for 401, 403, 404, 429 and for 500, 502, 503, 504, and m
\* itself for every other status, 408 included.
C11_MessageByStatus ==
  \A c \in CallIds :
    FailedCall(calls[c]) /\ Truthy(calls[c].last.response) =>
      /\ calls[c].classified.name = "CDSError"
      /\ calls[c].classified.message =
           C11_StatedMessage(StatusOf(calls[c].last).n, C11_ServerMessage(calls[c].last))

\* a call ended on a 408 that carried a server message, after its retries
C11_Witness ==
  \E c \in CallIds :
    /\ FailedCall(calls[c])
    /\ calls[c].attempts = MaxRetries + 1
    /\ AnsweredWith(calls[c].last, 408)
    /\ calls[c].classified.message = Str("boom")

\* C12: the client's timeout and retry count are the caller's values whenever
\* the caller supplies them, a retry count of 0 and a timeout of 0 included;
\* 30000 and 3 are used only for an absent field.
C12_SuppliedValuesKept ==
  constructed =>
    /\ config.timeout = IF cfgIn.timeout = Undef THEN Num(30000) ELSE cfgIn.timeout
    /\ config.retries = IF cfgIn.retries = Undef THEN Num(3) ELSE cfgIn.retries

\* a network-level failure: connection refused, host name not resolved, or the
\* attempt's timeout exceeded; the request went out and no response came
C13_NetworkLevelFailure(error) ==
  /\ error.name = "AxiosError"
  /\ ~Truthy(error.response)
  /\ error.code \in {Str(code) : code \in NetworkCodes \cup {"ECONNABORTED"}}

\* C13: an attempt's network-level failure (connection refused, timeout, DNS
\* failure) is retried whatever the request's method, POST /distance included,
\* while fewer than maxRetries retries have been made: a call ends on such a
\* failure only with its maxRetries + 1 attempts made.
C13_NetworkFailureRetried ==
  \A c \in CallIds :
    FailedCall(calls[c]) /\ C13_NetworkLevelFailure(calls[c].last) =>
      calls[c].attempts = MaxRetries + 1

\* C16: every attempt of a call, a retry included, is sent with the full
\* configured timeout, whatever time earlier attempts and delays have taken.
C16_FullTimeoutEachAttempt ==
  \A c \in CallIds :
    calls[c].pc = "sent" => calls[c].timeout = config.timeout.n

\* C14: getSuggestions returns the list L itself, the empty list included, both
\* for a response body that is the bare list L and for a body {data: L}.
C14_ListUnwrapped ==
  \A c \in CallIds :
    /\ calls[c].pc = "settled"
    /\ calls[c].op = "getSuggestions"
    /\ calls[c].last.name = "Response"
    => \A l \in Suggestions :
         calls[c].last.data \in {List(l), Obj([data |-> List(l)])}
         => calls[c].result = Resolved(List(l))

C14_Witness ==
  \E c \in CallIds :
    /\ calls[c].pc = "settled"
    /\ calls[c].op = "getSuggestions"
    /\ calls[c].last.name = "Response"
    /\ calls[c].last.data = Obj([data |-> List(<<>>)])
    /\ calls[c].result = Resolved(List(<<>>))

\* what a call's own record says its state must be: the retry count follows
\* the call's own attempts, the call gives up on a retryable failure only with
\* its own maxRetries + 1 attempts made, and its result is the result of its
\* own final attempt
C15_OwnStateOnly(call) ==
  /\ call.pc \in {"sent", "settled"} /\ call.attempts >= 1 =>
       call.retryCount = call.attempts - 1
  /\ call.pc = "backoff" => call.retryCount = call.attempts
  /\ FailedCall(call) /\ (AnsweredWith(call.last, 503) \/ ~Truthy(call.last.response)) =>
       call.attempts = MaxRetries + 1
  /\ call.pc = "settled" /\ call.attempts >= 1 =>
       call.result = IF call.last.name = "Response"
                     THEN OnResponse(call.op, call.last.data)
                     ELSE OnError(call.op, errorInterceptor(call.last, call.attempts - 1))

\* C15: with several calls in flight on one client, in every interleaving a
\* call's next attempt is issued only when its previous attempt has failed and
\* none of its attempts is outstanding, a step of one call leaves every other
\* call as it was, and each call's retry count and final result are those of
\* its own attempts.
C15_CallsIndependent ==
  [][\A c \in CallIds :
       /\ FurtherAttempt(c) =>
            calls[c].pc = "backoff" /\ calls[c].last.name = "AxiosError"
       /\ calls'[c] # calls[c] => \A d \in CallIds \ {c} : calls'[d] = calls[d]
       /\ C15_OwnStateOnly(calls'[c])]_vars

\* one call has used up its retries and failed while the other, started
\* before that, is on its first attempt still
C15_Witness ==
  /\ FailedCall(calls["c1"]) /\ calls["c1"].attempts = MaxRetries + 1
  /\ MaxRetries >= 1
  /\ calls["c2"].pc = "sent" /\ calls["c2"].attempts = 1

\* every search or calculate of the hook has run to its end
C17_AllSettled == \A c \in CallIds : calls[c].pc = "idle"

\* C17: in useCitySuggestions, once every issued search has settled, the
\* suggestions are the outcome of the most recently issued search: its result
\* list if it succeeded, the empty list if its query had fewer than 2
\* characters; an earlier query's later response does not replace it.
C17_LatestSearchShown ==
  hook = "useCitySuggestions" /\ C17_AllSettled =>
    /\ latest.by = "short" => suggestions = List(<<>>)
    /\ latest.result.kind = "resolved" => suggestions = latest.result.value

\* C18: in both hooks, loading is true exactly while a client request the hook
\* has started is in flight (its call has not run to its end), false otherwise.
C18_LoadingWhileInFlight ==
  hook \in Hooks => (loading <=> \E c \in CallIds : calls[c].pc # "idle")

\* C19: in useDistanceCalculation, distance and error are never both non-null,
\* and once every calculate has settled the outcome of the most recently
\* issued one is shown: its distance and a null error if it succeeded, its
\* error and a null distance if it failed.
C19_LatestCalculateShown ==
  hook = "useDistanceCalculation" =>
    /\ ~(distance # Null /\ hookError # Null)
    /\ C17_AllSettled /\ latest.result.kind = "resolved" =>
         distance = latest.result.value /\ hookError = Null
    /\ C17_AllSettled /\ latest.result.kind = "rejected" =>
         hookError = latest.result.error /\ distance = Null

====
